---- MODULE Spec2Model ----
(***************************************************************************)
(* Model of the hexgrid crate (src/lib.rs): the Coordinate value type on   *)
(* the cubic coordinate scheme, its constructors new/at, neighbors,        *)
(* distance_to and the Add/Sub operators, together with the bindings of a  *)
(* caller that owns Coordinate values and passes them to these functions.  *)
(*                                                                         *)
(* Coordinate derives only Debug, PartialEq and PartialOrd (no Clone, no   *)
(* Copy), so a Coordinate passed by value is moved out of the caller's     *)
(* binding.  The components are i64; arithmetic on them either aborts the  *)
(* thread on overflow (overflow checks on, the debug profile) or wraps     *)
(* (overflow checks off, the release profile).                             *)
(***************************************************************************)
EXTENDS Integers, Sequences, FiniteSets

VARIABLES
    build,      \* "debug" (overflow checks on) or "release" (wrapping)
    scope,      \* the integers the caller passes to at (args) and the
                \* component values of the grid it works on (grid)
    vals,       \* the caller's bindings: slot -> Option<Coordinate>
    call,       \* the last call: function, operands, outcome, return value
    aborted     \* the thread has panicked

vars == <<build, scope, vals, call, aborted>>

(* ------------------------------ bounds --------------------------------- *)

\* Radius of the grid the caller works on under Spec.
Cap == 2

\* Width in bits of the modelled signed component type (i64 in the source).
Bits == 6

\* The caller's bindings.
Slots == {"p", "q"}

(* --------------------------- i64 arithmetic ---------------------------- *)

RECURSIVE Pow2(_)
Pow2(n) == IF n = 0 THEN 1 ELSE 2 * Pow2(n - 1)

Modulus == Pow2(Bits)
MinInt == 0 - Pow2(Bits - 1)
MaxInt == Pow2(Bits - 1) - 1

\* The two's-complement value an out-of-range result wraps to.
Wrap(n) == ((n - MinInt) % Modulus) + MinInt

\* One arithmetic operation whose exact result is n: the value the
\* wrapping build yields and whether the operation overflowed.
I64(n) == [v |-> Wrap(n), of |-> (n < MinInt \/ n > MaxInt)]

\* i64::abs: the absolute value; abs(MIN) overflows.
I64Abs(n) == I64(IF n < 0 THEN 0 - n ELSE n)

\* i64 division by a positive constant truncates toward zero.
TruncDiv(n, d) == IF n >= 0 THEN n \div d ELSE 0 - ((0 - n) \div d)

(* ------------------------------ values --------------------------------- *)

Coordinate(x, y, z) == [x |-> x, y |-> y, z |-> z]

None == << >>
Some(c) == << c >>

\* Outcomes of a call: a returned value, the Err of a Result, or a panic.
Ok(v) == [st |-> "ok", v |-> v]
Err == [st |-> "err", v |-> "Invalid cubic coordinates"]
Panic == [st |-> "panic", v |-> "panic"]

\* An overflowing operation panics when overflow checks are on.
Checked(of, r) == IF of /\ build = "debug" THEN Panic ELSE r

(* ----------------------------- Coordinate ------------------------------ *)

new == Ok(Coordinate(0, 0, 0))

at_nocheck(x, y, z) == Ok(Coordinate(x, y, z))

at_xy_only(x, y, z) ==
    IF x + y = 0 THEN Ok(Coordinate(x, y, z)) ELSE Err

at(x, y, z) ==
    LET s1 == I64(x + y)
        s2 == I64(s1.v + z)
    IN  Checked(s1.of \/ s2.of,
                IF s2.v = 0 THEN Ok(Coordinate(x, y, z)) ELSE Err)

\* Result::unwrap on the result of at: Err panics.
unwrap(r) == IF r.st = "ok" THEN r ELSE Panic

\* at(self.x + dx, self.y + dy, self.z + dz).unwrap()
offset(c, dx, dy, dz) ==
    LET nx == I64(c.x + dx)
        ny == I64(c.y + dy)
        nz == I64(c.z + dz)
    IN  Checked(nx.of \/ ny.of \/ nz.of, unwrap(at(nx.v, ny.v, nz.v)))

\* vec![...] of the six elements: a panic in any element aborts the call.
vec(rs) ==
    IF \E k \in 1..Len(rs) : rs[k].st = "panic"
    THEN Panic
    ELSE Ok([k \in 1..Len(rs) |-> rs[k].v])

neighbors_swapped(c) ==
    vec(<< offset(c, 1, 0, -1), offset(c, 1, -1, 0), offset(c, 0, 1, -1),
           offset(c, 0, -1, 1), offset(c, -1, 0, 1), offset(c, -1, 1, 0) >>)

neighbors_far(c) ==
    vec(<< offset(c, 1, 1, -2), offset(c, 1, -1, 0), offset(c, 0, -1, 1),
           offset(c, 0, 1, -1), offset(c, -1, 0, 1), offset(c, -1, 1, 0) >>)

neighbors(c) ==
    vec(<< offset(c, 1, 0, -1), offset(c, 1, -1, 0), offset(c, 0, -1, 1),
           offset(c, 0, 1, -1), offset(c, -1, 0, 1), offset(c, -1, 1, 0) >>)

distance_nohalf(a, b) ==
    LET dx == I64(a.x - b.x)
        dy == I64(a.y - b.y)
        dz == I64(a.z - b.z)
        ax == I64Abs(dx.v)
        ay == I64Abs(dy.v)
        az == I64Abs(dz.v)
        s1 == I64(ax.v + ay.v)
        s2 == I64(s1.v + az.v)
    IN  Checked(dx.of \/ dy.of \/ dz.of \/ ax.of \/ ay.of \/ az.of
                    \/ s1.of \/ s2.of,
                Ok(s2.v))

distance_noabs(a, b) ==
    LET dx == I64(a.x - b.x)
        dy == I64(a.y - b.y)
        dz == I64(a.z - b.z)
        ay == I64Abs(dy.v)
        az == I64Abs(dz.v)
        s1 == I64(dx.v + ay.v)
        s2 == I64(s1.v + az.v)
    IN  Checked(dx.of \/ dy.of \/ dz.of \/ ay.of \/ az.of \/ s1.of \/ s2.of,
                Ok(TruncDiv(s2.v, 2)))

distance_misparen(a, b) ==
    LET dx == I64(a.x - b.x)
        dy == I64(a.y - b.y)
        dz == I64(a.z - b.z)
        ax == I64Abs(dx.v)
        ay == I64Abs(dy.v)
        az == I64Abs(dz.v)
        s1 == I64(ax.v + ay.v)
        s2 == I64(s1.v + TruncDiv(az.v, 2))
    IN  Checked(dx.of \/ dy.of \/ dz.of \/ ax.of \/ ay.of \/ az.of
                    \/ s1.of \/ s2.of,
                Ok(s2.v))

distance_to(a, b) ==
    LET dx == I64(a.x - b.x)
        dy == I64(a.y - b.y)
        dz == I64(a.z - b.z)
        ax == I64Abs(dx.v)
        ay == I64Abs(dy.v)
        az == I64Abs(dz.v)
        s1 == I64(ax.v + ay.v)
        s2 == I64(s1.v + az.v)
    IN  Checked(dx.of \/ dy.of \/ dz.of \/ ax.of \/ ay.of \/ az.of
                    \/ s1.of \/ s2.of,
                Ok(TruncDiv(s2.v, 2)))

add_zy(a, b) ==
    LET x == I64(a.x + b.x)
        y == I64(a.y + b.y)
        z == I64(a.z + b.y)
    IN  Checked(x.of \/ y.of \/ z.of, Ok(Coordinate(x.v, y.v, z.v)))

add(a, b) ==
    LET x == I64(a.x + b.x)
        y == I64(a.y + b.y)
        z == I64(a.z + b.z)
    IN  Checked(x.of \/ y.of \/ z.of, Ok(Coordinate(x.v, y.v, z.v)))

sub_zy(a, b) ==
    LET x == I64(a.x - b.x)
        y == I64(a.y - b.y)
        z == I64(a.z - b.y)
    IN  Checked(x.of \/ y.of \/ z.of, Ok(Coordinate(x.v, y.v, z.v)))

sub(a, b) ==
    LET x == I64(a.x - b.x)
        y == I64(a.y - b.y)
        z == I64(a.z - b.z)
    IN  Checked(x.of \/ y.of \/ z.of, Ok(Coordinate(x.v, y.v, z.v)))

(* ------------------------------ the caller ----------------------------- *)

InGrid(c) == c.x \in scope.grid /\ c.y \in scope.grid /\ c.z \in scope.grid

\* The record of a call: f the function, self/other its Coordinate operands,
\* args its integer arguments, i/j the bindings the operands came from,
\* dst the binding that receives the result, r the outcome.
Called(f, self, other, args, i, j, dst, r) ==
    [op |-> f, self |-> self, other |-> other, args |-> args,
     i |-> i, j |-> j, dst |-> dst, st |-> r.st, ret |-> r.v]

Start ==
    /\ build \in {"debug", "release"}
    /\ vals = [s \in Slots |-> None]
    /\ call = Called("none", None, None, << >>, "", "", "", Ok(0))
    /\ aborted = FALSE

\* The caller works on the grid of radius Cap around the origin; it builds
\* coordinates with at from unit components and reaches the rest of the grid
\* with neighbors, add and sub.
Init == Start /\ scope = [args |-> {-1, 0, 1}, grid |-> (0 - Cap)..Cap]

\* The caller passes at every triple of integers of magnitude up to Cap.
InitAt == Start /\ scope = [args |-> (0 - Cap)..Cap, grid |-> (0 - Cap)..Cap]

\* The caller works at the ends of the component type's range.
InitW ==
    Start /\ scope = [args |-> {MinInt, 0, 1, MaxInt},
                      grid |-> {MinInt, MinInt + 1, -1, 0, 1, MaxInt}]

\* let dst = Coordinate::new().ok();
New(dst) ==
    /\ ~aborted
    /\ vals' = [vals EXCEPT ![dst] = Some(new.v)]
    /\ call' = Called("new", None, None, << >>, "", "", dst, new)
    /\ UNCHANGED <<build, scope, aborted>>

\* let dst = Coordinate::at(x, y, z).ok();
At(dst, x, y, z) ==
    LET r == at(x, y, z) IN
    /\ ~aborted
    /\ call' = Called("at", None, None, <<x, y, z>>, "", "", dst, r)
    /\ aborted' = (r.st = "panic")
    /\ vals' = IF r.st = "panic" THEN vals
               ELSE [vals EXCEPT ![dst] = IF r.st = "ok" THEN Some(r.v) ELSE None]
    /\ UNCHANGED <<build, scope>>

\* let i = vals[i].neighbors().swap_remove(k - 1);  self is borrowed for the
\* call, and the caller rebinds i to the k-th neighbor (a step on the grid).
Neighbors(i, k) ==
    /\ ~aborted
    /\ vals[i] # None
    /\ LET r == neighbors(vals[i][1]) IN
         /\ r.st = "ok" => k <= Len(r.v) /\ InGrid(r.v[k])
         /\ call' = Called("neighbors", vals[i], None, <<k>>, i, "", i, r)
         /\ aborted' = (r.st = "panic")
         /\ vals' = IF r.st = "panic" THEN vals
                    ELSE [vals EXCEPT ![i] = Some(r.v[k])]
    /\ UNCHANGED <<build, scope>>

\* vals[i].distance_to(vals[j]);  self is borrowed, other is moved.
DistanceTo(i, j) ==
    /\ ~aborted
    /\ i # j
    /\ vals[i] # None
    /\ vals[j] # None
    /\ LET r == distance_to(vals[i][1], vals[j][1]) IN
         /\ call' = Called("distance_to", vals[i], vals[j], << >>, i, j, "", r)
         /\ aborted' = (r.st = "panic")
         /\ vals' = IF r.st = "panic" THEN vals
                    ELSE [vals EXCEPT ![j] = None]
    /\ UNCHANGED <<build, scope>>

\* let dst = vals[i] + vals[j];  both operands are moved.
Add(i, j, dst) ==
    /\ ~aborted
    /\ i # j
    /\ vals[i] # None
    /\ vals[j] # None
    /\ LET r == add(vals[i][1], vals[j][1]) IN
         /\ r.st = "ok" => InGrid(r.v)
         /\ call' = Called("add", vals[i], vals[j], << >>, i, j, dst, r)
         /\ aborted' = (r.st = "panic")
         /\ vals' = IF r.st = "panic" THEN vals
                    ELSE [s \in Slots |-> IF s = dst THEN Some(r.v) ELSE
                                          IF s \in {i, j} THEN None ELSE vals[s]]
    /\ UNCHANGED <<build, scope>>

\* let dst = vals[i] - vals[j];  both operands are moved.
Sub(i, j, dst) ==
    /\ ~aborted
    /\ i # j
    /\ vals[i] # None
    /\ vals[j] # None
    /\ LET r == sub(vals[i][1], vals[j][1]) IN
         /\ r.st = "ok" => InGrid(r.v)
         /\ call' = Called("sub", vals[i], vals[j], << >>, i, j, dst, r)
         /\ aborted' = (r.st = "panic")
         /\ vals' = IF r.st = "panic" THEN vals
                    ELSE [s \in Slots |-> IF s = dst THEN Some(r.v) ELSE
                                          IF s \in {i, j} THEN None ELSE vals[s]]
    /\ UNCHANGED <<build, scope>>

Next ==
    \/ \E dst \in Slots : New(dst)
    \/ \E dst \in Slots : \E x \in scope.args, y \in scope.args, z \in scope.args :
            At(dst, x, y, z)
    \/ \E i \in Slots : \E k \in 1..6 : Neighbors(i, k)
    \/ \E i \in Slots, j \in Slots : DistanceTo(i, j)
    \/ \E i \in Slots, j \in Slots, dst \in Slots : Add(i, j, dst)
    \/ \E i \in Slots, j \in Slots, dst \in Slots : Sub(i, j, dst)

Spec == Init /\ [][Next]_vars

\* Only the constructors: the caller rebinds p with the result of at or new.
NextAt ==
    \/ New("p")
    \/ \E x \in scope.args, y \in scope.args, z \in scope.args : At("p", x, y, z)

SpecAt == InitAt /\ [][NextAt]_vars

SpecW == InitW /\ [][Next]_vars

(* ------------------------- reference definitions ----------------------- *)

\* Exact (unbounded) integer arithmetic, against which the results are held.
Sum(c) == c.x + c.y + c.z
Mag(n) == IF n < 0 THEN 0 - n ELSE n
L1(a, b) == Mag(a.x - b.x) + Mag(a.y - b.y) + Mag(a.z - b.z)
Plus(a, b) == Coordinate(a.x + b.x, a.y + b.y, a.z + b.z)
Minus(a, b) == Coordinate(a.x - b.x, a.y - b.y, a.z - b.z)
Origin == Coordinate(0, 0, 0)

\* The six offsets in the order the claim lists them.
Offsets ==
    << Coordinate(1, 0, -1), Coordinate(1, -1, 0), Coordinate(0, -1, 1),
       Coordinate(0, 1, -1), Coordinate(-1, 0, 1), Coordinate(-1, 1, 0) >>

\* The coordinates the caller holds, and those the last call returned.
Held == {vals[s][1] : s \in {t \in Slots : vals[t] # None}}
Returned ==
    IF call.st # "ok" THEN {}
    ELSE IF call.op \in {"new", "at", "add", "sub"} THEN {call.ret}
    ELSE IF call.op = "neighbors" THEN {call.ret[k] : k \in DOMAIN call.ret}
    ELSE {}

\* The valid coordinates of the caller's grid.
GridCoords ==
    {c \in {Coordinate(x, y, 0 - (x + y)) : x \in scope.grid, y \in scope.grid} :
        InGrid(c)}

\* Breadth-first search from the set front along neighbors, inside the grid:
\* the number of neighbor steps after which b is first reached (-1: never).
RECURSIVE Search(_, _, _, _)
Search(front, seen, b, n) ==
    IF b \in front THEN n
    ELSE IF front = {} THEN -1
    ELSE LET step == UNION {{neighbors(c).v[k] : k \in 1..6} : c \in front}
             next == {c \in step : InGrid(c)} \ seen
         IN  Search(next, seen \cup next, b, n + 1)

MinSteps(a, b) == Search({a}, {a}, b, 0)

(* -------------------------------- claims ------------------------------- *)

\* C1: every Coordinate the caller can obtain through new, a successful at,
\* an element of neighbors, add or sub (held in a binding or just returned)
\* has components that sum to zero.
C1_SumZero == \A c \in Held \cup Returned : Sum(c) = 0

\* C1 witness: a sum of two coordinates away from the origin, bound by the caller.
C1_Witness ==
    /\ call.op = "add"
    /\ call.st = "ok"
    /\ call.ret # Origin
    /\ call.self # Some(Origin)
    /\ vals[call.dst] = Some(call.ret)

\* C2: at(x, y, z) succeeds exactly when x + y + z = 0 and then yields the
\* Coordinate with exactly these components; otherwise it fails with the
\* invalid-coordinate error and yields no Coordinate.
C2_AtValidates ==
    call.op = "at" =>
        LET x == call.args[1]
            y == call.args[2]
            z == call.args[3]
        IN  IF x + y + z = 0
            THEN /\ call.st = "ok"
                 /\ call.ret = Coordinate(x, y, z)
                 /\ vals[call.dst] = Some(Coordinate(x, y, z))
            ELSE /\ call.st = "err"
                 /\ call.ret = "Invalid cubic coordinates"
                 /\ vals[call.dst] = None

\* C2 witness: at has rejected components whose first two cancel but whose
\* sum is not zero.
C2_Witness ==
    /\ call.op = "at"
    /\ call.st = "err"
    /\ call.args[1] + call.args[2] = 0
    /\ call.args[3] # 0

\* C3: neighbors(c) returns exactly six coordinates in the fixed order
\* c+(1,0,-1), c+(1,-1,0), c+(0,-1,1), c+(0,1,-1), c+(-1,0,1), c+(-1,1,0);
\* they are pairwise distinct, and for the origin they are the six offsets.
C3_NeighborsOrder ==
    call.op = "neighbors" =>
        LET c == call.self[1] IN
        /\ call.st = "ok"
        /\ Len(call.ret) = 6
        /\ \A k \in 1..6 : call.ret[k] = Plus(c, Offsets[k])
        /\ \A k \in 1..6, m \in 1..6 : k # m => call.ret[k] # call.ret[m]
        /\ c = Origin =>
               {call.ret[k] : k \in 1..6} = {Offsets[k] : k \in 1..6}

\* C3 witness: neighbors of a coordinate other than the origin were listed.
C3_Witness ==
    /\ call.op = "neighbors"
    /\ call.st = "ok"
    /\ call.self # Some(Origin)

\* C4: every member of neighbors(c) is a valid Coordinate (components sum to
\* zero) and distance_to(c, member) is exactly 1.
C4_NeighborsAdjacent ==
    call.op = "neighbors" =>
        \A k \in DOMAIN call.ret :
            /\ Sum(call.ret[k]) = 0
            /\ distance_to(call.self[1], call.ret[k]) = Ok(1)

\* C4 witness: the caller took a neighbor of a coordinate on the rim of the grid.
C4_Witness ==
    /\ call.op = "neighbors"
    /\ call.st = "ok"
    /\ L1(call.self[1], Origin) = 2 * Cap
    /\ vals[call.dst] = Some(call.ret[call.args[1]])

\* C5: for valid a and b, |dx| + |dy| + |dz| is even and distance_to(a, b)
\* is exactly half of it; distance_to((-3,-1,4), (2,7,-9)) is 13.
C5_DistanceExact ==
    /\ call.op = "distance_to" =>
           LET s == L1(call.self[1], call.other[1]) IN
           /\ s % 2 = 0
           /\ call.st = "ok"
           /\ 2 * call.ret = s
    /\ distance_to(Coordinate(-3, -1, 4), Coordinate(2, 7, -9)) = Ok(13)

\* C5 witness: a distance of at least 3 was computed.
C5_Witness ==
    /\ call.op = "distance_to"
    /\ call.st = "ok"
    /\ call.ret >= 3

\* C6: triangle inequality: for valid a, b, c,
\* distance_to(a, c) <= distance_to(a, b) + distance_to(b, c).
C6_Triangle ==
    call.op = "distance_to" =>
        \A b \in GridCoords :
            call.ret <= distance_to(call.self[1], b).v
                          + distance_to(b, call.other[1]).v

\* C6 witness: a distance was computed between two coordinates that have a
\* third coordinate strictly between them, where the inequality is tight.
C6_Witness ==
    /\ call.op = "distance_to"
    /\ call.st = "ok"
    /\ \E b \in GridCoords :
          /\ Some(b) \notin {call.self, call.other}
          /\ call.ret = distance_to(call.self[1], b).v
                          + distance_to(b, call.other[1]).v

\* C7: add is the component-wise sum and sub the component-wise difference,
\* so (a + b) - b = a on all three components.
C7_RoundTrip ==
    /\ call.op = "add" =>
           /\ call.st = "ok"
           /\ call.ret = Plus(call.self[1], call.other[1])
           /\ sub(call.ret, call.other[1]) = Ok(call.self[1])
    /\ call.op = "sub" =>
           /\ call.st = "ok"
           /\ call.ret = Minus(call.self[1], call.other[1])

\* C7 witness: two coordinates with distinct y and z components were added.
C7_Witness ==
    /\ call.op = "add"
    /\ call.st = "ok"
    /\ call.other[1].y # call.other[1].z
    /\ call.self[1].y # call.self[1].z

\* C8: origin, neighbors, distance_to, add and sub are total on valid
\* inputs over the whole range of the component type: each returns its
\* mathematically exact result, with no overflow, wrapped value or abort.
C8_Total ==
    LET valid(o) == o = None \/ Sum(o[1]) = 0 IN
    (call.op \in {"new", "neighbors", "distance_to", "add", "sub"}
        /\ valid(call.self) /\ valid(call.other)) =>
        /\ call.st = "ok"
        /\ call.op = "new" => call.ret = Origin
        /\ call.op = "neighbors" =>
              call.ret = [k \in 1..6 |-> Plus(call.self[1], Offsets[k])]
        /\ call.op = "distance_to" =>
              2 * call.ret = L1(call.self[1], call.other[1])
        /\ call.op = "add" => call.ret = Plus(call.self[1], call.other[1])
        /\ call.op = "sub" => call.ret = Minus(call.self[1], call.other[1])

\* C9: add, sub and distance_to leave their operands usable: after the call
\* the caller's bindings of the operands still hold the same components.
C9_OperandsUsable ==
    /\ call.op \in {"add", "sub"} /\ call.st = "ok" =>
           /\ call.i # call.dst => vals[call.i] = call.self
           /\ call.j # call.dst => vals[call.j] = call.other
    /\ call.op = "distance_to" /\ call.st = "ok" =>
           /\ vals[call.i] = call.self
           /\ vals[call.j] = call.other

\* C10: distance_to(a, b) is the minimum number of neighbor steps from a to
\* b: b is reached from a in exactly that many steps and in no fewer.
C10_MinSteps ==
    call.op = "distance_to" =>
        call.ret = MinSteps(call.self[1], call.other[1])

\* C10 witness: a distance was computed between two coordinates that are
\* not adjacent, and b is indeed first reached after that many steps.
C10_Witness ==
    /\ call.op = "distance_to"
    /\ call.st = "ok"
    /\ call.ret >= 2
    /\ call.other[1] \notin {neighbors(call.self[1]).v[k] : k \in 1..6}
    /\ MinSteps(call.self[1], call.other[1]) = call.ret

====
